---- MODULE Spec2Model ----
(***************************************************************************)
(* The synchronous facade of libsql-napi-rs: error normalisation           *)
(* (convertError), the Database connection facade, the Statement handle    *)
(* and the transaction wrapper (Database.transaction / wrapTxn).           *)
(*                                                                         *)
(* The native engine binding (index.js) and sqlite-error.js are not part   *)
(* of the sources at hand; they are modelled from the specification's      *)
(* description of the consumed engine surface (section 6) and are named    *)
(* Native... / SqliteError below.                                          *)
(***************************************************************************)
EXTENDS Integers, Sequences, FiniteSets, TLC

\* Bounds of the model.
MaxStmts == 2
MaxRows == 2
MaxDepth == 2

VARIABLES
    open,       \* native connection handle still open (not yet closed)
    inTxn,      \* native engine: a transaction is active on the connection
    committed,  \* native engine: number of durable rows
    working,    \* native engine: number of rows visible on this connection
    dflt,       \* native engine: connection default of safe-integers mode
    handles,    \* native statement handles: sequence of mode-flag records
    stmts,      \* facade Statement objects: sequence of [stmt |-> handle]
    wrapped,    \* a transaction-function has been produced by transaction(fn)
    stack,      \* transaction-function invocations whose body is running
    last,       \* outcome of the most recent facade call, as its caller saw it
    client      \* which part of the API the calling program exercises in this run

vars == <<open, inTxn, committed, working, dflt, handles, stmts, wrapped, stack, last, client>>

(***************************************************************************)
(* JavaScript values.  A primitive is [t, s, n]; a string is its text.     *)
(***************************************************************************)
Undefined == [t |-> "undefined", s |-> "", n |-> 0]
Null == [t |-> "null", s |-> "", n |-> 0]
JTrue == [t |-> "true", s |-> "", n |-> 0]
JFalse == [t |-> "false", s |-> "", n |-> 0]
Num(n) == [t |-> "number", s |-> "", n |-> n]
Str(s) == [t |-> "string", s |-> s, n |-> 0]

\* JavaScript truthiness of a primitive ("data && ...", "if (x)").
Truthy(p) ==
    CASE p.t = "true" -> TRUE
      [] p.t = "number" -> p.n # 0
      [] p.t = "string" -> p.s # ""
      [] OTHER -> FALSE

(***************************************************************************)
(* JSON text is a sequence of tokens [k, s, n]: punctuation "p", string    *)
(* literal "s", number literal "n", bare word "w" (true, false, null, or   *)
(* any other run of characters, which is no JSON).                         *)
(***************************************************************************)
LB == [k |-> "p", s |-> "{", n |-> 0]
RB == [k |-> "p", s |-> "}", n |-> 0]
Colon == [k |-> "p", s |-> ":", n |-> 0]
Comma == [k |-> "p", s |-> ",", n |-> 0]
StrTok(s) == [k |-> "s", s |-> s, n |-> 0]
NumTok(n) == [k |-> "n", s |-> "", n |-> n]
Word(s) == [k |-> "w", s |-> s, n |-> 0]

\* The text of a primitive converted to a string ('' + value): a string's own
\* characters are a bare run of characters, not a quoted literal.
ToText(p) ==
    CASE p.t = "string" -> <<Word(p.s)>>
      [] p.t = "number" -> <<NumTok(p.n)>>
      [] OTHER -> <<Word(p.t)>>

\* JSON.stringify of one primitive member value.
PrimTok(p) ==
    CASE p.t = "string" -> StrTok(p.s)
      [] p.t = "number" -> NumTok(p.n)
      [] OTHER -> Word(p.t)

\* JSON.stringify of the members of an object given as a sequence of
\* [k, v] pairs in insertion order; members whose value is undefined are omitted.
RECURSIVE StringifyMembers(_)
StringifyMembers(ps) ==
    IF ps = <<>> THEN <<>>
    ELSE LET h == Head(ps)
             r == StringifyMembers(Tail(ps))
         IN IF h.v.t = "undefined" THEN r
            ELSE <<StrTok(h.k), Colon, PrimTok(h.v)>>
                 \o (IF r = <<>> THEN <<>> ELSE <<Comma>> \o r)

JSONStringify(ps) == <<LB>> \o StringifyMembers(ps) \o <<RB>>

\* Result of JSON.parse: ok = FALSE is a SyntaxError; otherwise the value is
\* the primitive p (t # "object") or the object with members f (t = "object").
ParseFail == [ok |-> FALSE, t |-> "undefined", p |-> Undefined, f |-> <<>>]
ParsedPrim(p) == [ok |-> TRUE, t |-> p.t, p |-> p, f |-> <<>>]
ParsedObj(ps) == [ok |-> TRUE, t |-> "object", p |-> Undefined, f |-> ps]

IsPrimTok(tk) ==
    \/ tk.k \in {"s", "n"}
    \/ tk.k = "w" /\ tk.s \in {"true", "false", "null"}

ParsePrim(tk) ==
    CASE tk.k = "s" -> Str(tk.s)
      [] tk.k = "n" -> Num(tk.n)
      [] tk.s = "true" -> JTrue
      [] tk.s = "false" -> JFalse
      [] OTHER -> Null

\* members of an object after its opening brace: key : value (, key : value)* }
RECURSIVE ParseMembers(_, _)
ParseMembers(ts, acc) ==
    IF Len(ts) >= 4 /\ ts[1].k = "s" /\ ts[2] = Colon /\ IsPrimTok(ts[3])
    THEN LET acc2 == Append(acc, [k |-> ts[1].s, v |-> ParsePrim(ts[3])])
         IN IF ts[4] = RB
            THEN (IF Len(ts) = 4 THEN ParsedObj(acc2) ELSE ParseFail)
            ELSE IF ts[4] = Comma
                 THEN ParseMembers(SubSeq(ts, 5, Len(ts)), acc2)
                 ELSE ParseFail
    ELSE ParseFail

JSONParse(ts) ==
    IF Len(ts) = 1 /\ IsPrimTok(ts[1]) THEN ParsedPrim(ParsePrim(ts[1]))
    ELSE IF ts = <<LB, RB>> THEN ParsedObj(<<>>)
    ELSE IF Len(ts) >= 2 /\ ts[1] = LB THEN ParseMembers(Tail(ts), <<>>)
    ELSE ParseFail

\* data.key of a parsed value: the last member of that name, undefined when
\* there is none or the value is a primitive.
RECURSIVE Lookup(_, _)
Lookup(ps, key) ==
    IF ps = <<>> THEN Undefined
    ELSE IF ps[Len(ps)].k = key THEN ps[Len(ps)].v
    ELSE Lookup(SubSeq(ps, 1, Len(ps) - 1), key)

Prop(data, key) == IF data.t = "object" THEN Lookup(data.f, key) ELSE Undefined

\* truthiness of a parsed value: every object is truthy.
DataTruthy(data) == IF data.t = "object" THEN TRUE ELSE Truthy(data.p)

(***************************************************************************)
(* Thrown values.  ref is the value's identity; t its kind; message is     *)
(* what reading .message gives; marker is an own property libsqlError.     *)
(***************************************************************************)
NoMsg == [t |-> "undefined", text |-> <<>>]
MsgStr(text) == [t |-> "string", text |-> text]
MsgNum == [t |-> "number", text |-> <<>>]

Thrown(ref, t, message, code, rawCode, marker) ==
    [ref |-> ref, t |-> t, message |-> message, code |-> code,
     rawCode |-> rawCode, marker |-> marker]

NoErr == Thrown(<<"none">>, "none", NoMsg, Undefined, Undefined, Undefined)

\* the message an Error gets from a primitive value: its text as a string.
AsMessage(p) == MsgStr(ToText(p))

\* new SqliteError(message, code, rawCode): a new object (an identity no input has).
SqliteError(message, code, rawCode, from) ==
    Thrown(<<"new">> \o from.ref, "SqliteError", message, code, rawCode, Undefined)

\* the TypeError the runtime raises when a property of null or undefined is read.
TypeErrorReadingNull(from) ==
    Thrown(<<"new">> \o from.ref, "TypeError", MsgStr(<<Word("Cannot read properties")>>),
           Undefined, Undefined, Undefined)

\* Outcome of calling convertError: val is returned, or thrown when threw.
Returned(v) == [threw |-> FALSE, val |-> v]
Raised(v) == [threw |-> TRUE, val |-> v]

\* convertError testing the marker on the error itself instead of on the
\* parsed message.                                                  (mutant)
convertError_MarkerOnError(err) ==
    IF err.t \in {"null", "undefined"} THEN Raised(TypeErrorReadingNull(err))
    ELSE IF err.message.t = "string"
         THEN LET data == JSONParse(err.message.text)
              IN IF data.ok /\ DataTruthy(data) /\ Truthy(err.marker)
                 THEN Returned(SqliteError(AsMessage(Prop(data, "message")), Prop(data, "code"),
                                           Prop(data, "rawCode"), err))
                 ELSE Returned(err)
         ELSE Returned(err)

\* convertError converting whatever parses, without testing the marker.  (mutant)
convertError_NoMarkerCheck(err) ==
    IF err.t \in {"null", "undefined"} THEN Raised(TypeErrorReadingNull(err))
    ELSE IF err.message.t = "string"
         THEN LET data == JSONParse(err.message.text)
              IN IF data.ok /\ DataTruthy(data)
                 THEN Returned(SqliteError(AsMessage(Prop(data, "message")), Prop(data, "code"),
                                           Prop(data, "rawCode"), err))
                 ELSE Returned(err)
         ELSE Returned(err)

\* convertError of the facade.
convertError(err) ==
    IF err.t \in {"null", "undefined"} THEN Raised(TypeErrorReadingNull(err))
    ELSE IF err.message.t = "string"
         THEN LET data == JSONParse(err.message.text)
              IN IF data.ok /\ DataTruthy(data) /\ Truthy(Prop(data, "libsqlError"))
                 THEN Returned(SqliteError(AsMessage(Prop(data, "message")), Prop(data, "code"),
                                           Prop(data, "rawCode"), err))
                 ELSE Returned(err)
         ELSE Returned(err)

\* convertError of the stub wrapper: tests an own property of the error.
convertError_stub(err) ==
    IF err.t \in {"null", "undefined"} THEN Raised(TypeErrorReadingNull(err))
    ELSE IF Truthy(err.marker)
         THEN Returned(SqliteError(err.message, err.code, err.rawCode, err))
         ELSE Returned(err)

(***************************************************************************)
(* Values the engine and the user's code throw in this model.              *)
(***************************************************************************)
Payload(marker, M, C, R) ==
    <<[k |-> "libsqlError", v |-> marker], [k |-> "message", v |-> M],
      [k |-> "code", v |-> C], [k |-> "rawCode", v |-> R]>>

\* a structured engine failure: an Error whose message is the JSON payload.
Structured(ref, M, C, R) ==
    Thrown(ref, "Error", MsgStr(JSONStringify(Payload(JTrue, Str(M), Str(C), Num(R)))),
           Undefined, Undefined, Undefined)

AuthDenied == Structured(<<"e1">>, "Authorization denied by JS authorizer", "SQLITE_AUTH", 23)
NativeFault ==
    Thrown(<<"e2">>, "Error", MsgStr(<<Word("native fault")>>), Undefined, Undefined, Undefined)
EngineThrown == {AuthDenied, NativeFault}

Boom == Thrown(<<"u1">>, "Error", MsgStr(<<Word("boom")>>), Undefined, Undefined, Undefined)
UserThrown == {Boom}

\* new TypeError(...) raised by the facade's own argument checks.
FacadeTypeError(msg) ==
    Thrown(<<"t1">>, "TypeError", MsgStr(<<Word(msg)>>), Undefined, Undefined, Undefined)

\* values a transaction body returns.
RetVals == {"r1", "r2"}

(***************************************************************************)
(* The native engine, as the facade consumes it.                           *)
(***************************************************************************)
Modes == {"", "DEFERRED", "IMMEDIATE", "EXCLUSIVE"}

\* "BEGIN " + mode
BeginSQL(mode) ==
    CASE mode = "" -> "BEGIN "
      [] mode = "DEFERRED" -> "BEGIN DEFERRED"
      [] mode = "IMMEDIATE" -> "BEGIN IMMEDIATE"
      [] OTHER -> "BEGIN EXCLUSIVE"

InsertSQL == "INSERT INTO users DEFAULT VALUES"
IsBegin(sql) == \E m \in Modes : sql = BeginSQL(m)

Eng == [open |-> open, inTxn |-> inTxn, committed |-> committed, working |-> working]

\* whether the engine can execute sql in state e at all.
NativeExecCan(e, sql) ==
    /\ e.open
    /\ CASE IsBegin(sql) -> ~e.inTxn
         [] sql \in {"COMMIT", "ROLLBACK"} -> e.inTxn
         [] OTHER -> e.working < MaxRows

\* the engine state after sql has been executed.
NativeExecDo(e, sql) ==
    CASE IsBegin(sql) -> [e EXCEPT !.inTxn = TRUE]
      [] sql = "COMMIT" -> [e EXCEPT !.inTxn = FALSE, !.committed = e.working]
      [] sql = "ROLLBACK" -> [e EXCEPT !.inTxn = FALSE, !.working = e.committed]
      [] OTHER -> IF e.inTxn
                  THEN [e EXCEPT !.working = e.working + 1]
                  ELSE [e EXCEPT !.working = e.working + 1, !.committed = e.working + 1]

\* what a native exec may do: succeed (NoErr) where it can, or throw.
ExecOutcomes(e, sql) == (IF NativeExecCan(e, sql) THEN {NoErr} ELSE {}) \cup EngineThrown

\* what any other native call may do: succeed while the connection is open, or throw.
CallOutcomes(e) == (IF e.open THEN {NoErr} ELSE {}) \cup EngineThrown

\* close(): the engine releases the connection; an open transaction is discarded.
NativeClose(e) == [e EXCEPT !.open = FALSE, !.inTxn = FALSE, !.working = e.committed]

\* mode flags of a freshly prepared native statement.
NativeNewHandle(d) == [raw |-> FALSE, pluck |-> FALSE, safe |-> d]

\* the flag value a toggle argument selects: an omitted argument enables.
NativeFlag(arg) == arg.t # "false"

NativeToggle(hs, h, flag, arg) == [hs EXCEPT ![h] = [@ EXCEPT ![flag] = NativeFlag(arg)]]

\* shape of the rows a native statement produces under its flags.
Shape(f) == IF f.pluck THEN "scalar" ELSE IF f.raw THEN "array" ELSE "object"

ToggleArgs == {Undefined, JTrue, JFalse}

(***************************************************************************)
(* The record of a facade call as its caller observes it.                  *)
(***************************************************************************)
NoTx ==
    [mode |-> "", issued |-> <<>>, fnRan |-> FALSE, body |-> "none", bodyErr |-> NoErr,
     bodyRet |-> "", preC |-> 0, preW |-> 0, endW |-> 0, postC |-> 0, postW |-> 0,
     postTxn |-> FALSE, commitRaw |-> NoErr, rollbackRaw |-> NoErr, depth |-> 0]

Call(op, target, closedBefore, site, raw, seen, ret, tx) ==
    [op |-> op, target |-> target, closedBefore |-> closedBefore,
     outcome |-> IF seen = NoErr THEN "return" ELSE "throw",
     site |-> site, raw |-> raw, seen |-> seen, ret |-> ret, tx |-> tx]

\* throw convertError(err), for each value the engine throws.
Rethrown == [e \in EngineThrown |-> convertError(e).val]

\* a native call made inside try { ... } catch (err) { throw convertError(err) }.
Wrapped(op, target, site, r, ret) ==
    Call(op, target, ~open, IF r = NoErr THEN "" ELSE site, r,
         IF r = NoErr THEN NoErr ELSE Rethrown[r], IF r = NoErr THEN ret ELSE "", NoTx)

\* a native call delegated to directly: what it throws reaches the caller as it is.
Direct(op, target, site, r, ret) ==
    Call(op, target, ~open, IF r = NoErr THEN "" ELSE site, r, r,
         IF r = NoErr THEN ret ELSE "", NoTx)

(***************************************************************************)
(* Connection facade.                                                      *)
(***************************************************************************)
\* the calling program exercises this part of the API in this run
Uses(api) == client = api

SetEng(e) ==
    /\ open' = e.open
    /\ inTxn' = e.inTxn
    /\ committed' = e.committed
    /\ working' = e.working

\* exec with an empty catch clause: the failure is swallowed.         (mutant)
DbExec_Swallow(e, sql, r) ==
    [eng |-> IF r = NoErr THEN NativeExecDo(e, sql) ELSE e, seen |-> NoErr]

\* Database.exec(sql) from engine state e when the native exec does r:
\* the engine state afterwards and what the caller of exec sees thrown.
DbExec(e, sql, r) ==
    [eng |-> IF r = NoErr THEN NativeExecDo(e, sql) ELSE e,
     seen |-> IF r = NoErr THEN NoErr ELSE Rethrown[r]]

\* db.exec(sql) called by user code with a data statement.
Database_exec ==
    /\ Uses("transactions")
    /\ \E r \in ExecOutcomes(Eng, InsertSQL) :
        LET x == DbExec(Eng, InsertSQL, r)
        IN /\ SetEng(x.eng)
           /\ last' = Call("exec", 0, ~open, IF r = NoErr THEN "" ELSE "db.exec", r,
                           x.seen, "", NoTx)
           /\ UNCHANGED <<dflt, handles, stmts, wrapped, stack, client>>

\* new Statement(this.db.prepare(sql)): the Statement holds the handle just prepared.
NewStatement(hs) == [stmt |-> Len(hs) + 1]

Database_prepare ==
    /\ Uses("statements")
    /\ \E r \in CallOutcomes(Eng) :
        /\ r = NoErr => Len(stmts) < MaxStmts
        /\ IF r = NoErr
           THEN /\ handles' = Append(handles, NativeNewHandle(dflt))
                /\ stmts' = Append(stmts, NewStatement(handles))
           ELSE UNCHANGED <<handles, stmts, client>>
        /\ last' = Wrapped("prepare", 0, "db.prepare", r, "Statement")
        /\ UNCHANGED <<open, inTxn, committed, working, dflt, wrapped, stack, client>>

\* db.transaction(fn): the argument check, then the four variants are built.
Database_transaction ==
    /\ Uses("transactions")
    /\ \E isFunction \in BOOLEAN :
        /\ wrapped' = (wrapped \/ isFunction)
        /\ last' = Call("transaction", 0, ~open, "", NoErr,
                        IF isFunction THEN NoErr
                        ELSE FacadeTypeError("Expected first argument to be a function"),
                        IF isFunction THEN "function" ELSE "", NoTx)
        /\ UNCHANGED <<open, inTxn, committed, working, dflt, handles, stmts, stack, client>>

Database_interrupt ==
    /\ Uses("transactions")
    /\ \E r \in CallOutcomes(Eng) :
        /\ last' = Direct("interrupt", 0, "db.interrupt", r, "")
        /\ UNCHANGED <<open, inTxn, committed, working, dflt, handles, stmts, wrapped, stack, client>>

Database_close ==
    \E r \in CallOutcomes(Eng) :
        /\ SetEng(IF r = NoErr THEN NativeClose(Eng) ELSE Eng)
        /\ last' = Direct("close", 0, "db.close", r, "")
        /\ UNCHANGED <<dflt, handles, stmts, wrapped, stack, client>>

Database_defaultSafeIntegers ==
    /\ Uses("statements")
    /\ \E arg \in ToggleArgs, r \in CallOutcomes(Eng) :
        /\ dflt' = IF r = NoErr THEN NativeFlag(arg) ELSE dflt
        /\ last' = Direct("defaultSafeIntegers", 0, "db.defaultSafeIntegers", r, "this")
        /\ UNCHANGED <<open, inTxn, committed, working, handles, stmts, wrapped, stack, client>>

\* the inTransaction getter defined by the constructor.
Database_inTransaction ==
    /\ Uses("transactions")
    /\ \E r \in CallOutcomes(Eng) :
        /\ last' = Direct("inTransaction", 0, "db.inTransaction", r,
                          IF inTxn THEN "true" ELSE "false")
        /\ UNCHANGED <<open, inTxn, committed, working, dflt, handles, stmts, wrapped, stack, client>>

(***************************************************************************)
(* Statement handle.                                                       *)
(***************************************************************************)
\* pluck mode kept in one place for all statements of the connection. (mutant)
StmtPluck_Shared(hs, st, s, arg) ==
    [h \in DOMAIN hs |-> [hs[h] EXCEPT !.pluck = NativeFlag(arg)]]

\* this.stmt.raw(raw) / this.stmt.pluck(pluckMode) / this.stmt.safeIntegers(toggle)
StmtRaw(hs, st, s, arg) == NativeToggle(hs, st[s].stmt, "raw", arg)
StmtPluck(hs, st, s, arg) == NativeToggle(hs, st[s].stmt, "pluck", arg)
StmtSafeIntegers(hs, st, s, arg) == NativeToggle(hs, st[s].stmt, "safe", arg)

Statement_raw ==
    /\ Uses("statements")
    /\ \E s \in 1..Len(stmts), arg \in ToggleArgs, r \in CallOutcomes(Eng) :
        /\ r # NoErr => arg = Undefined
        /\ handles' = IF r = NoErr THEN StmtRaw(handles, stmts, s, arg) ELSE handles
        /\ last' = Direct("raw", s, "stmt.raw", r, "this")
        /\ UNCHANGED <<open, inTxn, committed, working, dflt, stmts, wrapped, stack, client>>

Statement_pluck ==
    /\ Uses("statements")
    /\ \E s \in 1..Len(stmts), arg \in ToggleArgs, r \in CallOutcomes(Eng) :
        /\ r # NoErr => arg = Undefined
        /\ handles' = IF r = NoErr THEN StmtPluck(handles, stmts, s, arg) ELSE handles
        /\ last' = Direct("pluck", s, "stmt.pluck", r, "this")
        /\ UNCHANGED <<open, inTxn, committed, working, dflt, stmts, wrapped, stack, client>>

Statement_safeIntegers ==
    /\ Uses("statements")
    /\ \E s \in 1..Len(stmts), arg \in ToggleArgs, r \in CallOutcomes(Eng) :
        /\ r # NoErr => arg = Undefined
        /\ handles' = IF r = NoErr THEN StmtSafeIntegers(handles, stmts, s, arg) ELSE handles
        /\ last' = Direct("safeIntegers", s, "stmt.safeIntegers", r, "this")
        /\ UNCHANGED <<open, inTxn, committed, working, dflt, stmts, wrapped, stack, client>>

Statement_run ==
    /\ Uses("statements")
    /\ \E s \in 1..Len(stmts), r \in CallOutcomes(Eng) :
        /\ last' = Wrapped("run", 0, "stmt.run", r, "info")
        /\ UNCHANGED <<open, inTxn, committed, working, dflt, handles, stmts, wrapped, stack, client>>

Statement_get ==
    /\ Uses("statements")
    /\ \E s \in 1..Len(stmts), r \in CallOutcomes(Eng) :
        /\ last' = Wrapped("get", 0, "stmt.get", r, Shape(handles[stmts[s].stmt]))
        /\ UNCHANGED <<open, inTxn, committed, working, dflt, handles, stmts, wrapped, stack, client>>

Statement_all ==
    /\ Uses("statements")
    /\ \E s \in 1..Len(stmts), r \in CallOutcomes(Eng) :
        /\ last' = Wrapped("all", 0, "stmt.all", r, Shape(handles[stmts[s].stmt]))
        /\ UNCHANGED <<open, inTxn, committed, working, dflt, handles, stmts, wrapped, stack, client>>

\* iterate returns the native iterator itself.
Statement_iterate ==
    /\ Uses("statements")
    /\ \E s \in 1..Len(stmts), r \in CallOutcomes(Eng) :
        /\ last' = Wrapped("iterate", 0, "stmt.iterate", r, "iterator")
        /\ UNCHANGED <<open, inTxn, committed, working, dflt, handles, stmts, wrapped, stack, client>>

\* the caller consumes the iterator that iterate has just returned: next() is
\* the native iterator's own method.
Iterator_next ==
    /\ Uses("statements")
    /\ last.op \in {"iterate", "next"}
    /\ last.ret = "iterator"
    /\ \E r \in CallOutcomes(Eng), more \in BOOLEAN :
           /\ last' = Direct("next", 0, "iterator.next", r,
                             IF more THEN "iterator" ELSE "done")
           /\ UNCHANGED <<open, inTxn, committed, working, dflt, handles, stmts, wrapped, stack, client>>

Statement_interrupt ==
    /\ Uses("statements")
    /\ \E s \in 1..Len(stmts), r \in CallOutcomes(Eng) :
        /\ last' = Direct("stmt.interrupt", 0, "stmt.interrupt", r, "this")
        /\ UNCHANGED <<open, inTxn, committed, working, dflt, handles, stmts, wrapped, stack, client>>

Statement_columns ==
    /\ Uses("statements")
    /\ \E s \in 1..Len(stmts), r \in CallOutcomes(Eng) :
        /\ last' = Direct("columns", 0, "stmt.columns", r, "columns")
        /\ UNCHANGED <<open, inTxn, committed, working, dflt, handles, stmts, wrapped, stack, client>>

(***************************************************************************)
(* Database.pragma: argument checks, prepare, then pluck().get() or all(). *)
(***************************************************************************)
PragmaOptions == {"null", "simple", "full", "nonobject"}

\* where a call of pragma may fail: in its argument checks, or at one of the
\* native calls it makes; "" is the call that succeeds.
PragmaFailures(simple) ==
    {<<"", NoErr>>}
    \cup ({"db.prepare", IF simple THEN "stmt.get" ELSE "stmt.all"} \X EngineThrown)
    \cup (IF simple THEN {"stmt.pluck"} \X EngineThrown ELSE {})

Database_pragma ==
    /\ Uses("statements")
    /\ \E sourceIsString \in BOOLEAN, options \in PragmaOptions :
      \E f \in PragmaFailures(options = "simple") :
        LET tmpH == Append(handles, NativeNewHandle(dflt))
            tmpS == Append(stmts, NewStatement(handles))
            me == Len(tmpS)
            simple == options = "simple"
            plucked == StmtPluck(tmpH, tmpS, me, Undefined)
            argsOk == sourceIsString /\ options # "nonobject"
            res ==
                IF ~sourceIsString
                THEN Call("pragma", 0, ~open, "", NoErr,
                          FacadeTypeError("Expected first argument to be a string"), "", NoTx)
                ELSE IF options = "nonobject"
                THEN Call("pragma", 0, ~open, "", NoErr,
                          FacadeTypeError("Expected second argument to be an options object"),
                          "", NoTx)
                ELSE IF f[1] = "db.prepare" THEN Wrapped("pragma", 0, "db.prepare", f[2], "")
                ELSE IF f[1] = "stmt.pluck" THEN Direct("pragma", 0, "stmt.pluck", f[2], "")
                ELSE IF simple
                THEN Wrapped("pragma", 0, "stmt.get", f[2], Shape(plucked[tmpS[me].stmt]))
                ELSE Wrapped("pragma", 0, "stmt.all", f[2], "rows")
            after == IF argsOk /\ simple /\ f[1] \in {"", "stmt.get"} THEN plucked ELSE tmpH
        IN \* no native call succeeds on a closed connection
           /\ (argsOk /\ ~open) => f[1] = "db.prepare"
           /\ (~argsOk) => f[1] = ""
           \* the Statement of the pragma is dropped when pragma returns
           /\ handles' = SubSeq(after, 1, Len(handles))
           /\ last' = res
           /\ UNCHANGED <<open, inTxn, committed, working, dflt, stmts, wrapped, stack, client>>

(***************************************************************************)
(* The transaction wrapper: the function wrapTxn(mode) returns.            *)
(***************************************************************************)
\* BEGIN issued inside the try block: its failure runs the catch clause. (mutant)
wrapTxn_begin_InTry(e, mode, r1) ==
    [eng |-> IF r1 = NoErr THEN NativeExecDo(e, BeginSQL(mode)) ELSE e,
     entered |-> r1 = NoErr,
     issued |-> IF r1 = NoErr THEN <<BeginSQL(mode)>> ELSE <<BeginSQL(mode), "ROLLBACK">>,
     raw |-> r1, seen |-> IF r1 = NoErr THEN NoErr ELSE Rethrown[r1]]

\* the failure of BEGIN ignored: the body runs all the same.          (mutant)
wrapTxn_begin_Swallow(e, mode, r1) ==
    [eng |-> IF r1 = NoErr THEN NativeExecDo(e, BeginSQL(mode)) ELSE e,
     entered |-> TRUE, issued |-> <<BeginSQL(mode)>>, raw |-> r1, seen |-> NoErr]

\* db.exec("BEGIN " + mode), outside the try block.
wrapTxn_begin(e, mode, r1) ==
    LET b == DbExec(e, BeginSQL(mode), r1)
    IN [eng |-> b.eng, entered |-> b.seen = NoErr, issued |-> <<BeginSQL(mode)>>,
        raw |-> r1, seen |-> b.seen]

\* the result of fn dropped after COMMIT.                              (mutant)
wrapTxn_return_NoResult(e, fr, ret, r2, r3) ==
    LET c == DbExec(e, "COMMIT", r2)
        rb == DbExec(c.eng, "ROLLBACK", r3)
    IN IF c.seen = NoErr
       THEN [eng |-> c.eng, issued |-> fr.issued \o <<"COMMIT">>, raw |-> NoErr,
             seen |-> NoErr, ret |-> ""]
       ELSE [eng |-> rb.eng, issued |-> fr.issued \o <<"COMMIT", "ROLLBACK">>,
             raw |-> IF rb.seen = NoErr THEN r2 ELSE r3,
             seen |-> IF rb.seen = NoErr THEN c.seen ELSE rb.seen,
             ret |-> ""]

\* fn returned ret: db.exec("COMMIT"); return result -- and, COMMIT being inside
\* the try block, the catch clause when COMMIT throws.
wrapTxn_return(e, fr, ret, r2, r3) ==
    LET c == DbExec(e, "COMMIT", r2)
        rb == DbExec(c.eng, "ROLLBACK", r3)
    IN IF c.seen = NoErr
       THEN [eng |-> c.eng, issued |-> fr.issued \o <<"COMMIT">>, raw |-> NoErr,
             seen |-> NoErr, ret |-> ret]
       ELSE [eng |-> rb.eng, issued |-> fr.issued \o <<"COMMIT", "ROLLBACK">>,
             raw |-> IF rb.seen = NoErr THEN r2 ELSE r3,
             seen |-> IF rb.seen = NoErr THEN c.seen ELSE rb.seen,
             ret |-> ""]

\* the catch clause rethrowing without ROLLBACK.                      (mutant)
wrapTxn_throw_NoRollback(e, fr, err, r3) ==
    [eng |-> e, issued |-> fr.issued, raw |-> NoErr, seen |-> err, ret |-> ""]

\* the catch clause throwing a new Error made from the caught one.    (mutant)
wrapTxn_throw_NewError(e, fr, err, r3) ==
    LET rb == DbExec(e, "ROLLBACK", r3)
    IN [eng |-> rb.eng, issued |-> fr.issued \o <<"ROLLBACK">>,
        raw |-> IF rb.seen = NoErr THEN NoErr ELSE r3,
        seen |-> IF rb.seen = NoErr
                 THEN Thrown(<<"new">> \o err.ref, "Error", err.message, Undefined,
                             Undefined, Undefined)
                 ELSE rb.seen,
        ret |-> ""]

\* fn threw err: db.exec("ROLLBACK"); throw err.
wrapTxn_throw(e, fr, err, r3) ==
    LET rb == DbExec(e, "ROLLBACK", r3)
    IN [eng |-> rb.eng, issued |-> fr.issued \o <<"ROLLBACK">>,
        raw |-> IF rb.seen = NoErr THEN NoErr ELSE r3,
        seen |-> IF rb.seen = NoErr THEN err ELSE rb.seen,
        ret |-> ""]

Frame(mode, issued) ==
    [mode |-> mode, issued |-> issued, preC |-> committed, preW |-> working]

\* a variant of a transaction-function is called, at top level or from a body.
Txn_invoke ==
    /\ Uses("transactions")
    /\ wrapped
    /\ Len(stack) < MaxDepth
    /\ \E mode \in Modes :
         \E r1 \in ExecOutcomes(Eng, BeginSQL(mode)) :
           LET b == wrapTxn_begin(Eng, mode, r1)
               tx == [NoTx EXCEPT !.mode = mode, !.issued = b.issued, !.fnRan = b.entered,
                                  !.body = IF b.entered THEN "running" ELSE "none",
                                  !.preC = committed, !.preW = working,
                                  !.endW = b.eng.working,
                                  !.postC = b.eng.committed, !.postW = b.eng.working,
                                  !.postTxn = b.eng.inTxn, !.depth = Len(stack) + 1]
               c == Call("txn", 0, ~open, IF b.entered THEN "" ELSE "db.exec", b.raw,
                         b.seen, "", tx)
           IN /\ SetEng(b.eng)
              /\ stack' = IF b.entered THEN Append(stack, Frame(mode, b.issued)) ELSE stack
              /\ last' = IF b.entered THEN [c EXCEPT !.outcome = "running"] ELSE c
              /\ UNCHANGED <<dflt, handles, stmts, wrapped, client>>

Top == stack[Len(stack)]
Pop == SubSeq(stack, 1, Len(stack) - 1)

\* the record of an invocation whose body has ended; commitRaw and rollbackRaw
\* are what the engine answers to COMMIT and to ROLLBACK in this step.
Finished(fr, body, bodyErr, bodyRet, w, r2, r3) ==
    Call("txn", 0, ~open, IF w.raw = NoErr THEN "" ELSE "db.exec", w.raw, w.seen, w.ret,
         [mode |-> fr.mode, issued |-> w.issued, fnRan |-> TRUE, body |-> body,
          bodyErr |-> bodyErr, bodyRet |-> bodyRet, preC |-> fr.preC, preW |-> fr.preW,
          endW |-> working, postC |-> w.eng.committed, postW |-> w.eng.working,
          postTxn |-> w.eng.inTxn, commitRaw |-> r2, rollbackRaw |-> r3,
          depth |-> Len(stack)])

\* the body of the running invocation returns a value.
Body_return ==
    /\ Uses("transactions")
    /\ stack # <<>>
    /\ \E ret \in RetVals :
         \E r2 \in ExecOutcomes(Eng, "COMMIT") :
         \E r3 \in (IF r2 = NoErr THEN {NoErr} ELSE ExecOutcomes(Eng, "ROLLBACK")) :
           LET w == wrapTxn_return(Eng, Top, ret, r2, r3)
           IN /\ SetEng(w.eng)
              /\ stack' = Pop
              /\ last' = Finished(Top, "return", NoErr, ret, w, r2, r3)
              /\ UNCHANGED <<dflt, handles, stmts, wrapped, client>>

\* what the body may throw: an error of its own, or the error the call it has
\* just made threw at it.
BodyThrowable == UserThrown \cup (IF last.outcome = "throw" THEN {last.seen} ELSE {})

Body_throw ==
    /\ Uses("transactions")
    /\ stack # <<>>
    /\ \E err \in BodyThrowable :
         \E r3 \in ExecOutcomes(Eng, "ROLLBACK") :
           LET w == wrapTxn_throw(Eng, Top, err, r3)
           IN /\ SetEng(w.eng)
              /\ stack' = Pop
              /\ last' = Finished(Top, "throw", err, "", w, NoErr, r3)
              /\ UNCHANGED <<dflt, handles, stmts, wrapped, client>>

(***************************************************************************)
(* The facade as a state machine.                                          *)
(***************************************************************************)
Start == Call("new", 0, FALSE, "", NoErr, NoErr, "Database", NoTx)

Init ==
    /\ open = TRUE
    /\ inTxn = FALSE
    /\ committed = 0
    /\ working = 0
    /\ dflt = FALSE
    /\ handles = <<>>
    /\ stmts = <<>>
    /\ wrapped = FALSE
    /\ stack = <<>>
    /\ last = Start
    /\ client \in {"statements", "transactions"}

\* The calling program works either with prepared statements or with
\* transaction-functions; it may close the connection in both cases.
Next ==
    \/ Database_prepare
    \/ Database_pragma
    \/ Database_defaultSafeIntegers
    \/ Statement_raw
    \/ Statement_pluck
    \/ Statement_safeIntegers
    \/ Statement_run
    \/ Statement_get
    \/ Statement_all
    \/ Statement_iterate
    \/ Iterator_next
    \/ Statement_interrupt
    \/ Statement_columns
    \/ Database_transaction
    \/ Database_exec
    \/ Database_inTransaction
    \/ Database_interrupt
    \/ Txn_invoke
    \/ Body_return
    \/ Body_throw
    \/ Database_close

Spec == Init /\ [][Next]_vars

(***************************************************************************)
(* convertError on its own: every input of NormInputs is normalised once.  *)
(***************************************************************************)
Markers == {Undefined, JTrue, JFalse, Null, Num(0), Num(1), Str(""), Str("yes")}

\* JSON texts of objects with or without a marker, message, code and rawCode.
ObjectTexts ==
    {JSONStringify(Payload(mk, M, C, R)) :
        mk \in Markers, M \in {Undefined, Str("m")},
        C \in {Undefined, Str("SQLITE_AUTH")}, R \in {Undefined, Num(23)}}

\* texts that are JSON but no object, and texts that are no JSON.
OtherTexts ==
    {<<Word("null")>>, <<Word("true")>>, <<NumTok(1)>>, <<StrTok("x")>>,
     <<>>, <<Word("boom")>>, <<LB>>,
     <<LB, StrTok("libsqlError"), Colon, Word("true")>>,
     <<LB, StrTok("libsqlError"), Colon, Word("true"), Comma, RB>>,
     <<LB, StrTok("libsqlError"), Word("true"), RB>>}

NormInputs ==
    {Thrown(<<"in">>, "Error", msg, Undefined, Undefined, mk) :
        msg \in {MsgStr(x) : x \in ObjectTexts \cup OtherTexts} \cup {NoMsg, MsgNum},
        mk \in {Undefined, JTrue}}
    \cup {Thrown(<<"in">>, k, NoMsg, Undefined, Undefined, Undefined) :
             k \in {"null", "undefined", "string", "object"}}

Normalizing(e) == Call("convertError:call", 0, FALSE, "", e, NoErr, "", NoTx)

InitNorm ==
    /\ open = TRUE
    /\ inTxn = FALSE
    /\ committed = 0
    /\ working = 0
    /\ dflt = FALSE
    /\ handles = <<>>
    /\ stmts = <<>>
    /\ wrapped = FALSE
    /\ stack = <<>>
    /\ client = "normalizer"
    /\ \E e \in NormInputs : last = Normalizing(e)

Normalized(op, e, res) ==
    Call(op, 0, FALSE, "", e, res.val, IF res.threw THEN "thrown" ELSE "returned", NoTx)

Normalize ==
    /\ last.op = "convertError:call"
    /\ last' = Normalized("convertError", last.raw, convertError(last.raw))
    /\ UNCHANGED <<open, inTxn, committed, working, dflt, handles, stmts, wrapped, stack, client>>

Normalize_stub ==
    /\ last.op = "convertError:call"
    /\ last' = Normalized("convertError.stub", last.raw, convertError_stub(last.raw))
    /\ UNCHANGED <<open, inTxn, committed, working, dflt, handles, stmts, wrapped, stack, client>>

NextNorm ==
    \/ Normalize
    \/ Normalize_stub

SpecNorm == InitNorm /\ [][NextNorm]_vars

(***************************************************************************)
(* Properties.                                                             *)
(***************************************************************************)
\* the last call was an invocation of a transaction-function whose body ended
TxDone == last.op = "txn" /\ last.tx.body \in {"return", "throw"}
\* the last call was the start of an invocation (BEGIN failed, or the body runs)
TxInvoked == last.op = "txn" /\ last.tx.body \in {"none", "running"}
RollbackIssued == \E i \in 1..Len(last.tx.issued) : last.tx.issued[i] = "ROLLBACK"

C2_ReturnIssuesBeginCommit ==
    (TxDone /\ last.tx.body = "return") =>
        /\ last.tx.issued = <<BeginSQL(last.tx.mode), "COMMIT">>
        /\ last.outcome = "return"
        /\ last.ret = last.tx.bodyRet

\* C2 amended: whenever the body returns normally and the COMMIT succeeds, the
\* wrapper issues exactly BEGIN (with the variant's mode) then COMMIT, no
\* ROLLBACK, and the caller receives the body's return value.
C2_ReturnAndCommitOk ==
    (TxDone /\ last.tx.body = "return" /\ last.tx.commitRaw = NoErr) =>
        /\ last.tx.issued = <<BeginSQL(last.tx.mode), "COMMIT">>
        /\ last.outcome = "return"
        /\ last.ret = last.tx.bodyRet

C2_Witness ==
    /\ TxDone
    /\ last.tx.body = "return"
    /\ last.tx.commitRaw = NoErr
    /\ last.tx.mode = "IMMEDIATE"
    /\ last.ret = "r2"

\* C3 as stated: whenever the body throws E, the wrapper issues exactly one
\* BEGIN and one ROLLBACK, no COMMIT, and the caller observes E itself,
\* whatever the ROLLBACK does.
C3_ThrowRethrowsOriginal ==
    (TxDone /\ last.tx.body = "throw") =>
        /\ last.tx.issued = <<BeginSQL(last.tx.mode), "ROLLBACK">>
        /\ last.outcome = "throw"
        /\ last.seen = last.tx.bodyErr

\* C3 amended: whenever the body throws E, the wrapper issues exactly one BEGIN
\* and one ROLLBACK, no COMMIT; the caller observes E itself when the ROLLBACK
\* succeeds, and the normalised failure of the ROLLBACK when it fails.
C3_ThrowRethrowsUnlessRollbackFails ==
    (TxDone /\ last.tx.body = "throw") =>
        /\ last.tx.issued = <<BeginSQL(last.tx.mode), "ROLLBACK">>
        /\ last.outcome = "throw"
        /\ last.tx.rollbackRaw = NoErr => last.seen = last.tx.bodyErr
        /\ last.tx.rollbackRaw # NoErr => last.seen = Rethrown[last.tx.rollbackRaw]

C3_Witness ==
    /\ TxDone
    /\ last.tx.body = "throw"
    /\ last.tx.rollbackRaw = NoErr
    /\ last.seen = Boom
    /\ last.tx.endW # last.tx.preW

\* the engine error e carries the structured payload
\* JSON.stringify({libsqlError:true, message:M, code:C, rawCode:R}).
IsStructured(e) ==
    /\ e.message.t = "string"
    /\ LET d == JSONParse(e.message.text)
       IN /\ d.ok
          /\ d.t = "object"
          /\ e.message.text = JSONStringify(Payload(JTrue, Prop(d, "message"),
                                                    Prop(d, "code"), Prop(d, "rawCode")))

\* seen is the normalised error of the structured engine error e.
NormalOf(seen, e) ==
    LET d == JSONParse(e.message.text)
    IN /\ seen.t = "SqliteError"
       /\ seen.ref # e.ref
       /\ seen.message = AsMessage(Prop(d, "message"))
       /\ seen.code = Prop(d, "code")
       /\ seen.rawCode = Prop(d, "rawCode")

\* C4 as stated: every structured failure of any native call made through the
\* facade reaches the caller normalised, never raw (iterator consumption, close,
\* interrupt, raw, pluck, safeIntegers, columns, defaultSafeIntegers included).
C4_EveryEngineFailureNormalized ==
    (last.raw # NoErr /\ last.seen # NoErr /\ IsStructured(last.raw)) =>
        NormalOf(last.seen, last.raw)

\* the native calls the facade makes inside try/catch with convertError
WrappedSites == {"db.prepare", "db.exec", "stmt.run", "stmt.get", "stmt.all", "stmt.iterate"}

\* C4 amended: every structured failure thrown by the native call of
\* Database.prepare and exec, Statement.run, get, all and of the call of iterate
\* itself reaches the caller normalised (message M, code C, rawCode R), never raw.
C4_WrappedCallsNormalized ==
    (last.raw # NoErr /\ last.site \in WrappedSites /\ IsStructured(last.raw)) =>
        NormalOf(last.seen, last.raw)

C4_Witness ==
    /\ last.op = "run"
    /\ last.raw = AuthDenied
    /\ last.seen.t = "SqliteError"
    /\ last.seen.code = Str("SQLITE_AUTH")
    /\ last.seen.rawCode = Num(23)

\* the parsed message of e has no libsqlError member equal to true
NotMarkedTrue(e) ==
    \/ e.message.t # "string"
    \/ LET d == JSONParse(e.message.text)
       IN ~d.ok \/ d.t # "object" \/ Prop(d, "libsqlError") # JTrue

\* the parsed message of e has no libsqlError member, or a falsy one
FalsyMarkers == {Undefined, JFalse, Null, Num(0), Str("")}
NotMarked(e) ==
    \/ e.message.t # "string"
    \/ LET d == JSONParse(e.message.text)
       IN ~d.ok \/ d.t # "object" \/ Prop(d, "libsqlError") \in FalsyMarkers

\* C5 as stated: for every thrown value whose message is not valid JSON or
\* lacks libsqlError:true (missing or non-string message, a marker that is not
\* the boolean true, values that are no error objects), the normaliser returns
\* the identical value and raises nothing itself.
C5_UnmarkedReturnedIdentical ==
    (last.op = "convertError" /\ NotMarkedTrue(last.raw)) =>
        (last.ret = "returned" /\ last.seen = last.raw)

\* C5 amended: for every thrown value other than null and undefined whose
\* message is not a string, is not valid JSON, or parses to a value without a
\* truthy libsqlError member, the normaliser returns the identical value and
\* raises nothing itself.
C5_UnmarkedNonNullReturnedIdentical ==
    (last.op = "convertError" /\ last.raw.t \notin {"null", "undefined"}
     /\ NotMarked(last.raw)) =>
        (last.ret = "returned" /\ last.seen = last.raw)

C5_Witness ==
    /\ last.op = "convertError"
    /\ last.raw.message = MsgStr(JSONStringify(Payload(JFalse, Str("m"),
                                                       Str("SQLITE_AUTH"), Num(23))))
    /\ last.seen = last.raw

\* C6: when the engine rejects prepare with the structured authorization denial,
\* the message of the error the caller of prepare catches parses as JSON into
\* {libsqlError: true, code: "SQLITE_AUTH", rawCode: 23,
\*  message: "Authorization denied by JS authorizer"}.
C6_PrepareErrorMessageIsJSON ==
    (last.op = "prepare" /\ last.raw = AuthDenied) =>
        /\ last.seen.message.t = "string"
        /\ LET parsed == JSONParse(last.seen.message.text)
           IN /\ parsed.ok
              /\ Prop(parsed, "code") = Str("SQLITE_AUTH")
              /\ Prop(parsed, "libsqlError") = JTrue
              /\ Prop(parsed, "message") = Str("Authorization denied by JS authorizer")
              /\ Prop(parsed, "rawCode") = Num(23)

\* C7 as stated: after close(), every subsequent operation on the connection
\* and on its statements fails.
C7_NothingSucceedsAfterClose ==
    last.closedBefore => last.outcome = "throw"

\* C7 amended: after close(), every subsequent operation on the connection and
\* on its statements fails, except transaction(fn), which still returns a
\* transaction-function; invoking that function fails without running fn.
C7_OnlyTransactionSucceedsAfterClose ==
    last.closedBefore =>
        \/ last.outcome = "throw"
        \/ last.op = "transaction" /\ last.outcome = "return" /\ last.ret = "function"

C7_Witness ==
    /\ last.closedBefore
    /\ last.op = "txn"
    /\ last.outcome = "throw"
    /\ ~last.tx.fnRan

\* C8: a raw, pluck or safeIntegers call on one Statement (and the pluck that
\* pragma applies to its own Statement) leaves the flags of every other
\* Statement of the connection, and so the shape of its rows, unchanged.
C8_FlagsOfOtherStatementsUnchanged ==
    [][\A t \in 1..Len(stmts) :
          (last'.op \in {"raw", "pluck", "safeIntegers", "pragma"} /\ last'.target # t) =>
              /\ handles'[stmts'[t].stmt] = handles[stmts[t].stmt]
              /\ Shape(handles'[stmts'[t].stmt]) = Shape(handles[stmts[t].stmt])]_vars

C8_Witness ==
    /\ last.op = "pluck"
    /\ last.outcome = "return"
    /\ Len(stmts) = 2
    /\ handles[stmts[last.target].stmt].pluck
    /\ \E t \in 1..Len(stmts) : t # last.target /\ ~handles[stmts[t].stmt].pluck

\* C9: if exec("BEGIN " + mode) fails, the failure reaches the caller at once:
\* the user function is not invoked and neither COMMIT nor ROLLBACK is issued.
C9_BeginFailurePropagates ==
    (TxInvoked /\ last.raw # NoErr) =>
        /\ last.outcome = "throw"
        /\ last.seen = Rethrown[last.raw]
        /\ ~last.tx.fnRan
        /\ last.tx.issued = <<BeginSQL(last.tx.mode)>>
        /\ Len(stack) = last.tx.depth - 1
        /\ last.tx.postC = last.tx.preC
        /\ last.tx.postW = last.tx.preW

C9_Witness ==
    /\ TxInvoked
    /\ last.raw = AuthDenied
    /\ last.tx.depth = 1
    /\ open

====
